---- MODULE Spec2Model ----
(***************************************************************************)
(* State-machine model of the fastapi-datatables request-to-query        *)
(* compiler: DataTables.process (datatables/core.py), the backend          *)
(* adapter (datatables/database.py) and the helper pipeline of             *)
(* src/datatables/utils.py (build_condition, resolve_column,               *)
(* global_filter, column_filter, order_column).                            *)
(*                                                                         *)
(* Conventions.  A Python str that the code inspects character by          *)
(* character (search values, stored text) is a sequence of one-character   *)
(* strings.  A column path is the list str.split(".") returns, so a        *)
(* path prefix ".".join(current_path) is the corresponding prefix of       *)
(* that list (join and split are inverse on dot-free segments).            *)
(* aliased(...) returns a fresh object: an alias is identified by a        *)
(* number that is new to the statement under construction.                 *)
(***************************************************************************)
EXTENDS Integers, Sequences, FiniteSets, TLC

VARIABLES
    model,            \* DataTables.model
    base_statment,    \* DataTables.base_statment
    db_backend,       \* DataTables.db_backend
    author,           \* database content: the rows related to each root row
    pc,               \* per call: position in DataTables.process
    req,              \* per call: the DataTablesRequest
    stmt,             \* per call: local variable stmt of process
    records_total,    \* per call: local variable records_total
    records_filtered, \* per call: local variable records_filtered
    response,         \* per call: returned envelope, or the raised exception
    fin,              \* inputs of a helper of utils.py under evaluation
    fout              \* its result

vars == <<model, base_statment, db_backend, author, pc, req, stmt,
          records_total, records_filtered, response, fin, fout>>

None == "None"

(***************************************************************************)
(* Bounds of the model.                                                    *)
(***************************************************************************)
NPosts == 2
NUsers == 2
MaxCols == 2
MaxOrder == 2
MaxSize == 3
MaxStart == 1
MaxLength == 2
MaxValLen == 2

(***************************************************************************)
(* Python str helpers used by the code.                                    *)
(***************************************************************************)
Chars == {"a", "A", "b", " ", "1", "-", "T", "%"}

Digits == {"1"}

\* str.lower() / the case folding ILIKE applies, one character at a time
LowerChar(ch) == IF ch = "A" THEN "a" ELSE IF ch = "T" THEN "t" ELSE ch

RECURSIVE LStrip(_)
LStrip(s) == IF s # <<>> /\ Head(s) = " " THEN LStrip(Tail(s)) ELSE s

RECURSIVE RStrip(_)
RStrip(s) ==
    IF s # <<>> /\ s[Len(s)] = " " THEN RStrip(SubSeq(s, 1, Len(s) - 1)) ELSE s

\* str.strip()
Strip(s) == RStrip(LStrip(s))

\* value.split("T")[0]: the text before the first "T"
RECURSIVE SplitT0(_)
SplitT0(s) ==
    IF s = <<>> \/ Head(s) = "T" THEN <<>> ELSE <<Head(s)>> \o SplitT0(Tail(s))

\* SQL (I)LIKE: "%" matches any run of characters, case is folded
RECURSIVE ILike(_, _)
ILike(text, pat) ==
    IF pat = <<>> THEN text = <<>>
    ELSE IF Head(pat) = "%"
         THEN ILike(text, Tail(pat)) \/ (text # <<>> /\ ILike(Tail(text), pat))
         ELSE /\ text # <<>>
              /\ LowerChar(Head(text)) = LowerChar(Head(pat))
              /\ ILike(Tail(text), Tail(pat))

\* int(value): optional surrounding whitespace, an optional sign, then
\* digits.  The result is [ok |-> FALSE] for ValueError.
RECURSIVE DigitsValue(_, _)
DigitsValue(s, acc) ==
    IF s = <<>> THEN acc ELSE DigitsValue(Tail(s), 10 * acc + 1)

AllDigits(s) == s # <<>> /\ \A i \in 1..Len(s) : s[i] \in Digits

PyInt(value) ==
    LET t == Strip(value)
        neg == t # <<>> /\ Head(t) = "-"
        body == IF neg THEN Tail(t) ELSE t
    IN  IF AllDigits(body)
        THEN [ok |-> TRUE,
              val |-> IF neg THEN 0 - DigitsValue(body, 0) ELSE DigitsValue(body, 0)]
        ELSE [ok |-> FALSE, val |-> 0]

(***************************************************************************)
(* The mapped entities the processor is constructed over.  getattr on a   *)
(* mapped class (or an alias of it) yields a typed column, a relationship, *)
(* an attribute without .type/.property (hybrid_property) or raises        *)
(* AttributeError.                                                         *)
(***************************************************************************)
Absent == [cls |-> "absent", type |-> None, target |-> None]

ClassAttr(entity, name) ==
    CASE entity = "Post" /\ name = "id"      -> [cls |-> "column", type |-> "Integer", target |-> None]
      [] entity = "Post" /\ name = "title"   -> [cls |-> "column", type |-> "String", target |-> None]
      [] entity = "Post" /\ name = "author"  -> [cls |-> "relation", type |-> None, target |-> "User"]
      [] entity = "User" /\ name = "name"    -> [cls |-> "column", type |-> "String", target |-> None]
      [] entity = "User" /\ name = "age"     -> [cls |-> "column", type |-> "Integer", target |-> None]
      [] entity = "User" /\ name = "joined"  -> [cls |-> "column", type |-> "DateTime", target |-> None]
      [] entity = "User" /\ name = "active"  -> [cls |-> "column", type |-> "Boolean", target |-> None]
      [] entity = "User" /\ name = "initials" -> [cls |-> "hybrid", type |-> None, target |-> None]
      [] OTHER -> Absent

\* the un-aliased root entity of a statement
RootOf(m) == [id |-> 0, entity |-> m, prefix |-> <<>>]

\* an attribute handle: the (aliased) entity it is read from and its name
AttrOf(cur, name) ==
    [owner |-> cur.id, prefix |-> cur.prefix, entity |-> cur.entity, name |-> name]


(***************************************************************************)
(* Path resolution with aliased joins (resolve_column and the identical    *)
(* loops inlined in get_filtered_query and apply_ordering).  joins is the  *)
(* insertion-ordered dict path_str -> (relation_attr, aliased_model);      *)
(* aliased_models has the same keys and the same aliases, so one sequence  *)
(* stands for both.  used is the number of aliases the statement already   *)
(* carries, which makes every alias created here a new object.             *)
(***************************************************************************)
HasPrefix(joins, path) == \E k \in 1..Len(joins) : joins[k].prefix = path

AliasFor(joins, path) ==
    joins[CHOOSE k \in 1..Len(joins) : joins[k].prefix = path].alias

NoAttr == [owner |-> 0, prefix |-> <<>>, entity |-> None, name |-> None]

RECURSIVE ResolveWalk(_, _, _, _, _)
ResolveWalk(parts, i, cur, joins, used) ==
    LET part == parts[i]
        path == SubSeq(parts, 1, i)
        got == ClassAttr(cur.entity, part)
    IN  IF i < Len(parts)
        THEN IF HasPrefix(joins, path)
             THEN ResolveWalk(parts, i + 1, AliasFor(joins, path), joins, used)
             ELSE IF got.cls # "relation"
                  THEN [raised |-> TRUE, attr |-> NoAttr, joins |-> joins]
                  ELSE LET al == [id |-> used + Len(joins) + 1,
                                  entity |-> got.target, prefix |-> path]
                           j2 == Append(joins, [prefix |-> path,
                                                relation |-> AttrOf(cur, part),
                                                alias |-> al])
                       IN  ResolveWalk(parts, i + 1, al, j2, used)
        ELSE IF got.cls = "absent"
             THEN [raised |-> TRUE, attr |-> NoAttr, joins |-> joins]
             ELSE [raised |-> FALSE, attr |-> AttrOf(cur, part), joins |-> joins]

\* raised = TRUE stands for the AttributeError of getattr / .property.mapper
resolve_column(m, column_path, joins, used) ==
    ResolveWalk(column_path, 1, RootOf(m), joins, used)

(***************************************************************************)
(* Statements (sqlalchemy Select) as the clauses the code adds to them.    *)
(***************************************************************************)
Select(m) ==
    [root |-> m, joins |-> <<>>, where |-> <<>>, order |-> <<>>,
     paged |-> FALSE, offset |-> 0, limit |-> 0]

RECURSIVE apply_joins(_, _)
apply_joins(st, joins) ==
    IF joins = <<>> THEN st
    ELSE apply_joins(
           [st EXCEPT !.joins = Append(@, [alias |-> Head(joins).alias,
                                           relation |-> Head(joins).relation])],
           Tail(joins))

Where(st, conn, conds) ==
    [st EXCEPT !.where = Append(@, [conn |-> conn, conds |-> conds])]

OrderBy(st, attr, dir) ==
    [st EXCEPT !.order = Append(@, [attr |-> attr, dir |-> dir])]


\* stmt.offset(start).limit(length)
OffsetLimit(st, start, length) ==
    [st EXCEPT !.paged = TRUE, !.offset = start, !.limit = length]

(***************************************************************************)
(* build_condition: the predicate for one attribute, match mode and raw    *)
(* value, or NoCondition where the code returns None.                      *)
(***************************************************************************)
MatchModes == {"contains", "equals", "startsWith", "endsWith", "notContains", "notEquals"}

NoCondition == [op |-> "none", attr |-> NoAttr, cast |-> FALSE, text |-> <<>>, num |-> 0]

TextCondition(attr, match_mode, value, cast) ==
    LET c(op, text) == [op |-> op, attr |-> attr, cast |-> cast, text |-> text, num |-> 0]
    IN  CASE match_mode = "contains"    -> c("ilike", <<"%">> \o value \o <<"%">>)
          [] match_mode = "equals"      -> c("eq", value)
          [] match_mode = "startsWith"  -> c("ilike", value \o <<"%">>)
          [] match_mode = "endsWith"    -> c("ilike", <<"%">> \o value)
          [] match_mode = "notContains" -> c("not_ilike", <<"%">> \o value \o <<"%">>)
          [] match_mode = "notEquals"   -> c("ne", value)
          [] OTHER -> NoCondition

\* the ValueError of int() swallowed before the match mode is looked at,
\* the comparison then made against 0
IntConditionUnparsed(attr, match_mode, value) ==
    LET n == PyInt(value)
        c(op) == [op |-> op, attr |-> attr, cast |-> FALSE, text |-> <<>>, num |-> n.val]
    IN  CASE match_mode = "equals"    -> c("eq")
          [] match_mode = "notEquals" -> c("ne")
          [] OTHER -> NoCondition

IntCondition(attr, match_mode, value) ==
    LET n == PyInt(value)
        c(op) == [op |-> op, attr |-> attr, cast |-> FALSE, text |-> <<>>, num |-> n.val]
    IN  IF ~n.ok THEN NoCondition
        ELSE CASE match_mode = "equals"    -> c("eq")
               [] match_mode = "notEquals" -> c("ne")
               [] OTHER -> NoCondition

build_condition(column_attr, match_mode, value) ==
    LET got == ClassAttr(column_attr.entity, column_attr.name)
    IN  IF got.cls # "column" THEN NoCondition
        ELSE CASE got.type \in {"String", "Text"} ->
                     TextCondition(column_attr, match_mode, value, FALSE)
               [] got.type = "Integer" ->
                     IntCondition(column_attr, match_mode, value)
               [] got.type \in {"DateTime", "Date", "TIMESTAMP"} ->
                     TextCondition(column_attr, match_mode, SplitT0(value), TRUE)
               [] OTHER -> NoCondition


(***************************************************************************)
(* The database behind the session.  Rows are numbered; the variable       *)
(* author holds, for each Post row, the User rows its relationship         *)
(* reaches (none, one or several).  A result row of a statement binds the  *)
(* root entity (alias 0) and every joined alias to a row number.           *)
(***************************************************************************)
PostIds == 1..NPosts
UserIds == 1..NUsers

PostTitle(i) == IF i % 2 = 1 THEN <<"b">> ELSE <<"A", "b">>
UserName(u) == IF u % 2 = 1 THEN <<"a", "b">> ELSE <<"b">>

\* stored value of a column: text is a character sequence, numbers are
\* kept apart so that the two are never compared with each other
FieldText(entity, name, row) ==
    CASE entity = "Post" /\ name = "title"  -> PostTitle(row)
      [] entity = "User" /\ name = "name"   -> UserName(row)
      [] entity = "User" /\ name = "joined" -> <<"1", "-", "1">>
      [] OTHER -> <<>>

FieldNum(entity, name, row) ==
    CASE entity = "Post" /\ name = "id"  -> row
      [] entity = "User" /\ name = "age" -> 10 + row
      [] OTHER -> 0

RECURSIVE SetToSeq(_)
SetToSeq(S) ==
    IF S = {} THEN <<>>
    ELSE LET x == CHOOSE y \in S : \A z \in S : y <= z
         IN  <<x>> \o SetToSeq(S \ {x})

Related(links, relation, row) ==
    IF relation.entity = "Post" /\ relation.name = "author" THEN links[row] ELSE {}

\* INNER JOIN of one aliased relationship onto the rows so far
RECURSIVE JoinRows(_, _, _)
JoinRows(links, rows, j) ==
    IF rows = <<>> THEN <<>>
    ELSE LET b == Head(rows)
             targets == SetToSeq(Related(links, j.relation, b[j.relation.owner]))
         IN  [k \in 1..Len(targets) |-> b @@ (j.alias.id :> targets[k])]
             \o JoinRows(links, Tail(rows), j)

RECURSIVE JoinAll(_, _, _)
JoinAll(links, rows, joins) ==
    IF joins = <<>> THEN rows
    ELSE JoinAll(links, JoinRows(links, rows, Head(joins)), Tail(joins))

CondHolds(c, b) ==
    LET row == b[c.attr.owner]
        txt == FieldText(c.attr.entity, c.attr.name, row)
        num == FieldNum(c.attr.entity, c.attr.name, row)
        isNum == ClassAttr(c.attr.entity, c.attr.name).type = "Integer"
    IN  CASE c.op = "ilike"     -> ILike(txt, c.text)
          [] c.op = "not_ilike" -> ~ILike(txt, c.text)
          [] c.op = "eq"        -> IF isNum THEN num = c.num ELSE txt = c.text
          [] c.op = "ne"        -> IF isNum THEN num # c.num ELSE txt # c.text
          [] OTHER -> FALSE

ClauseHolds(cl, b) ==
    IF cl.conn = "or"
    THEN \E k \in 1..Len(cl.conds) : CondHolds(cl.conds[k], b)
    ELSE \A k \in 1..Len(cl.conds) : CondHolds(cl.conds[k], b)

RECURSIVE FilterRows(_, _)
FilterRows(rows, where) ==
    IF rows = <<>> THEN <<>>
    ELSE (IF \A k \in 1..Len(where) : ClauseHolds(where[k], Head(rows))
          THEN <<Head(rows)>> ELSE <<>>) \o FilterRows(Tail(rows), where)

\* collation of the text columns
CharRank(ch) ==
    CASE ch = " " -> 0 [] ch = "%" -> 1 [] ch = "-" -> 2 [] ch = "1" -> 3
      [] ch = "A" -> 4 [] ch = "T" -> 5 [] ch = "a" -> 6 [] OTHER -> 7

RECURSIVE TextCmp(_, _)
TextCmp(x, y) ==
    IF x = <<>> THEN (IF y = <<>> THEN 0 ELSE 0 - 1)
    ELSE IF y = <<>> THEN 1
    ELSE IF CharRank(Head(x)) < CharRank(Head(y)) THEN 0 - 1
    ELSE IF CharRank(Head(x)) > CharRank(Head(y)) THEN 1
    ELSE TextCmp(Tail(x), Tail(y))

TermCmp(t, a, b) ==
    LET e == t.attr.entity
        n == t.attr.name
        raw == IF ClassAttr(e, n).type = "Integer"
               THEN (IF FieldNum(e, n, a[t.attr.owner]) < FieldNum(e, n, b[t.attr.owner]) THEN 0 - 1
                     ELSE IF FieldNum(e, n, a[t.attr.owner]) > FieldNum(e, n, b[t.attr.owner]) THEN 1
                     ELSE 0)
               ELSE TextCmp(FieldText(e, n, a[t.attr.owner]), FieldText(e, n, b[t.attr.owner]))
    IN  IF t.dir = "desc" THEN 0 - raw ELSE raw

\* a sorts strictly before b under ORDER BY order (earlier terms first)
RECURSIVE Before(_, _, _)
Before(order, a, b) ==
    IF order = <<>> THEN FALSE
    ELSE LET c == TermCmp(Head(order), a, b)
         IN  IF c < 0 THEN TRUE ELSE IF c > 0 THEN FALSE
             ELSE Before(Tail(order), a, b)

RECURSIVE InsertRow(_, _, _)
InsertRow(order, sorted, b) ==
    IF sorted = <<>> THEN <<b>>
    ELSE IF Before(order, b, Head(sorted)) THEN <<b>> \o sorted
    ELSE <<Head(sorted)>> \o InsertRow(order, Tail(sorted), b)

\* rows that tie on every term keep the order the engine found them in
RECURSIVE SortRows(_, _)
SortRows(order, rows) ==
    IF rows = <<>> THEN <<>>
    ELSE InsertRow(order, SortRows(order, SubSeq(rows, 1, Len(rows) - 1)), rows[Len(rows)])

Window(rows, offset, limit) ==
    SubSeq(rows, offset + 1, IF offset + limit < Len(rows) THEN offset + limit ELSE Len(rows))

\* the rows the session returns for a statement
Execute(links, st) ==
    LET found == FilterRows(JoinAll(links, [i \in PostIds |-> (0 :> i)], st.joins), st.where)
        sorted == SortRows(st.order, found)
    IN  IF st.paged THEN Window(sorted, st.offset, st.limit) ELSE sorted


(***************************************************************************)
(* SQLAlchemyBackend (database.py): both counts run the statement they     *)
(* are given and count its rows; execute_query returns scalars().all(),    *)
(* the root entity of every result row.                                    *)
(***************************************************************************)
get_total_records(links, st) == Len(Execute(links, st))

get_filtered_records(links, st) == Len(Execute(links, st))

execute_query(links, st) ==
    LET rows == Execute(links, st) IN [k \in 1..Len(rows) |-> rows[k][0]]

(***************************************************************************)
(* DataTables (core.py).                                                   *)
(***************************************************************************)
NoStatement == [root |-> None, joins |-> <<>>, where |-> <<>>, order |-> <<>>,
                paged |-> FALSE, offset |-> 0, limit |-> 0]

get_query(m, base) == IF base = NoStatement THEN Select(m) ELSE base

\* the same without .strip(): a blank value counts as a search
SearchValueUnstripped(request) ==
    IF request.search.has THEN request.search.value ELSE <<>>

\* request_data.search.get("value", "").strip() if request_data.search else ""
SearchValue(request) ==
    IF request.search.has THEN Strip(request.search.value) ELSE <<>>

Returned(st) == [raised |-> FALSE, error |-> None, stmt |-> st]
Raised(error, st) == [raised |-> TRUE, error |-> error, stmt |-> st]

\* the loop over request_data.columns of get_filtered_query (lines 48-83)
RECURSIVE SearchLoop(_, _, _, _, _, _, _)
SearchLoop(m, columns, k, search_value, joins, conds, used) ==
    IF k > Len(columns) THEN [raised |-> FALSE, joins |-> joins, conds |-> conds]
    ELSE IF ~columns[k].searchable
         THEN SearchLoop(m, columns, k + 1, search_value, joins, conds, used)
         ELSE LET r == resolve_column(m, columns[k].name, joins, used)
                  got == ClassAttr(r.attr.entity, r.attr.name)
                  cond == [op |-> "ilike", attr |-> r.attr, cast |-> FALSE,
                           text |-> <<"%">> \o search_value \o <<"%">>, num |-> 0]
              IN  IF r.raised THEN [raised |-> TRUE, joins |-> joins, conds |-> conds]
                  ELSE SearchLoop(m, columns, k + 1, search_value, r.joins,
                                  IF got.cls = "column" /\ got.type \in {"String", "Text"}
                                  THEN Append(conds, cond) ELSE conds,
                                  used)

get_filtered_query(m, st, request) ==
    LET search_value == SearchValue(request)
        r == SearchLoop(m, request.columns, 1, search_value, <<>>, <<>>, Len(st.joins))
        joined == apply_joins(st, r.joins)
    IN  IF search_value = <<>> THEN Returned(st)
        ELSE IF r.raised THEN Raised("InvalidColumnError", st)
        ELSE IF r.conds # <<>> THEN Returned(Where(joined, "or", r.conds))
        ELSE Returned(joined)

\* request_data.columns[int(col_index)]: a negative index counts from the
\* end of the list, anything outside -len .. len-1 is an IndexError
InList(idx, n) == 0 - n <= idx /\ idx < n
ListIndex(idx, n) == IF idx < 0 THEN idx + n + 1 ELSE idx + 1

\* the loop over request_data.order of apply_ordering (lines 98-140)
RECURSIVE apply_ordering_from(_, _, _, _)
apply_ordering_from(m, st, request, k) ==
    IF k > Len(request.order) THEN Returned(st)
    ELSE LET col_index == request.order[k].column
             direction == request.order[k].dir
         IN  IF ~InList(col_index, Len(request.columns)) THEN Raised("IndexError", st)
             ELSE LET col_name == request.columns[ListIndex(col_index, Len(request.columns))].name
                      r == resolve_column(m, col_name, <<>>, Len(st.joins))
                      got == ClassAttr(r.attr.entity, r.attr.name)
                      joined == apply_joins(st, r.joins)
                  IN  IF r.raised THEN Raised("InvalidColumnError", st)
                      ELSE IF direction \notin {"asc", "desc"}
                           THEN Raised("ConfigurationError", st)
                      ELSE IF got.cls = "relation"
                           THEN Raised("NotImplementedError", st)
                      ELSE apply_ordering_from(m, OrderBy(joined, r.attr, direction),
                                               request, k + 1)

apply_ordering(m, st, request) == apply_ordering_from(m, st, request, 1)


(***************************************************************************)
(* Requests (schema.py, DataTablesRequest).                                *)
(***************************************************************************)
SeqsUpTo(S, n) == UNION {[1..k -> S] : k \in 0..n}

Paths == {<<"title">>, <<"author", "name">>, <<"author">>, <<"missing", "field">>}

ColumnSpecs == [name : Paths, searchable : BOOLEAN, orderable : BOOLEAN]

OrderKeys == [column : (0 - 1)..MaxCols, dir : {"asc", "desc", "sideways"}]

\* has = FALSE: search is None, {} or has no "value" key
Searches == {[has |-> FALSE, value |-> <<>>], [has |-> TRUE, value |-> <<>>],
             [has |-> TRUE, value |-> <<" ">>], [has |-> TRUE, value |-> <<"a", " ">>]}

\* the requests a single call is explored with: at most MaxSize columns
\* and order keys together
Requests ==
    {r \in [draw : {1}, start : 0..MaxStart, length : {MaxLength}, search : Searches,
            order : SeqsUpTo(OrderKeys, MaxOrder),
            columns : SeqsUpTo(ColumnSpecs, MaxCols)] :
        Len(r.order) + Len(r.columns) <= MaxSize}

\* the requests concurrent calls are explored with: one column reached
\* through a relation, searched or not, ordered or not, pages of one row
\* and of MaxLength rows at every offset
ConcRequests ==
    [draw : {1}, start : 0..MaxStart, length : {1, MaxLength},
     search : {[has |-> FALSE, value |-> <<>>], [has |-> TRUE, value |-> <<"a", " ">>]},
     order : {<<>>, <<[column |-> 0, dir |-> "desc"]>>},
     columns : {<<[name |-> <<"author", "name">>, searchable |-> TRUE,
                  orderable |-> TRUE]>>}]

NoRequest ==
    [draw |-> 0, start |-> 0, length |-> 0, search |-> [has |-> FALSE, value |-> <<>>],
     order |-> <<>>, columns |-> <<>>]

NoResponse ==
    [kind |-> "none", error |-> None, draw |-> 0, recordsTotal |-> 0,
     recordsFiltered |-> 0, data |-> <<>>]

Calls == {1, 2}

LinkSets == {{}, {1}, UserIds}

\* base_statment as given to the constructor: None, or select(model)
BaseStatements == {NoStatement, Select("Post")}

(***************************************************************************)
(* DataTables.__init__ and one action per step of DataTables.process.      *)
(***************************************************************************)
InitInstance ==
    /\ model = "Post"
    /\ base_statment \in BaseStatements
    /\ db_backend = "SQLAlchemyBackend"
    /\ author \in [PostIds -> LinkSets]
    /\ pc = [c \in Calls |-> "idle"]
    /\ req = [c \in Calls |-> NoRequest]
    /\ stmt = [c \in Calls |-> NoStatement]
    /\ records_total = [c \in Calls |-> 0]
    /\ records_filtered = [c \in Calls |-> 0]
    /\ response = [c \in Calls |-> NoResponse]

NoInput ==
    [fn |-> "none", attr |-> NoAttr, match_mode |-> None, value |-> <<>>,
     columns |-> <<>>, order |-> <<>>]

NoOutput ==
    [done |-> FALSE, condition |-> NoCondition, raised |-> FALSE, error |-> None,
     stmt |-> NoStatement]

Init ==
    /\ InitInstance
    /\ fin = NoInput
    /\ fout = NoOutput

instance == <<model, base_statment, db_backend, author>>

\* process is entered with a request; stmt = await self.get_query()
Begin(c, request) ==
    /\ pc[c] = "idle"
    /\ pc' = [pc EXCEPT ![c] = "total"]
    /\ req' = [req EXCEPT ![c] = request]
    /\ stmt' = [stmt EXCEPT ![c] = get_query(model, base_statment)]
    /\ records_total' = [records_total EXCEPT ![c] = 0]
    /\ records_filtered' = [records_filtered EXCEPT ![c] = 0]
    /\ response' = [response EXCEPT ![c] = NoResponse]
    /\ UNCHANGED <<instance, fin, fout>>

\* records_total = await self.db_backend.get_total_records(stmt)
TotalRecords(c) ==
    /\ pc[c] = "total"
    /\ records_total' = [records_total EXCEPT ![c] = get_total_records(author, stmt[c])]
    /\ pc' = [pc EXCEPT ![c] = "filter"]
    /\ UNCHANGED <<instance, req, stmt, records_filtered, response, fin, fout>>

Raise(c, error) ==
    /\ pc' = [pc EXCEPT ![c] = "raised"]
    /\ response' = [response EXCEPT ![c] = [NoResponse EXCEPT !.kind = "raised",
                                                               !.error = error]]

\* the statement kept on the instance instead of in the call: the filter
\* is applied to whatever statement a call in flight left there
FilteredQueryShared(c) ==
    /\ pc[c] = "filter"
    /\ LET others == {d \in Calls : d # c /\ pc[d] \in {"count", "order", "execute"}}
           shared == IF others = {} THEN stmt[c] ELSE stmt[CHOOSE d \in others : TRUE]
           r == get_filtered_query(model, shared, req[c])
       IN  IF r.raised
           THEN Raise(c, r.error) /\ UNCHANGED stmt
           ELSE /\ stmt' = [stmt EXCEPT ![c] = r.stmt]
                /\ pc' = [pc EXCEPT ![c] = "count"]
                /\ UNCHANGED response
    /\ UNCHANGED <<instance, req, records_total, records_filtered, fin, fout>>

\* stmt = await self.get_filtered_query(stmt, request_data)
FilteredQuery(c) ==
    /\ pc[c] = "filter"
    /\ LET r == get_filtered_query(model, stmt[c], req[c])
       IN  IF r.raised
           THEN Raise(c, r.error) /\ UNCHANGED stmt
           ELSE /\ stmt' = [stmt EXCEPT ![c] = r.stmt]
                /\ pc' = [pc EXCEPT ![c] = "count"]
                /\ UNCHANGED response
    /\ UNCHANGED <<instance, req, records_total, records_filtered, fin, fout>>

\* records_filtered = await self.db_backend.get_filtered_records(stmt)
FilteredRecords(c) ==
    /\ pc[c] = "count"
    /\ records_filtered' =
           [records_filtered EXCEPT ![c] = get_filtered_records(author, stmt[c])]
    /\ pc' = [pc EXCEPT ![c] = "order"]
    /\ UNCHANGED <<instance, req, stmt, records_total, response, fin, fout>>

\* offset and limit taken from the wrong fields
PaginateSwapped(st, request) == OffsetLimit(st, request.length, request.start)

\* stmt = await self.apply_ordering(stmt, request_data)
\* stmt = stmt.offset(request_data.start).limit(request_data.length)
Paginate(st, request) == OffsetLimit(st, request.start, request.length)

OrderAndPaginate(c) ==
    /\ pc[c] = "order"
    /\ LET r == apply_ordering(model, stmt[c], req[c])
       IN  IF r.raised
           THEN Raise(c, r.error) /\ UNCHANGED stmt
           ELSE /\ stmt' = [stmt EXCEPT ![c] = Paginate(r.stmt, req[c])]
                /\ pc' = [pc EXCEPT ![c] = "execute"]
                /\ UNCHANGED response
    /\ UNCHANGED <<instance, req, records_total, records_filtered, fin, fout>>

\* data = await self.db_backend.execute_query(stmt); return {...}
Envelope(request, total, filtered, data) ==
    [kind |-> "envelope", error |-> None, draw |-> request.draw,
     recordsTotal |-> total, recordsFiltered |-> filtered, data |-> data]

ExecuteQuery(c) ==
    /\ pc[c] = "execute"
    /\ response' = [response EXCEPT ![c] =
           Envelope(req[c], records_total[c], records_filtered[c],
                    execute_query(author, stmt[c]))]
    /\ pc' = [pc EXCEPT ![c] = "done"]
    /\ UNCHANGED <<instance, req, stmt, records_total, records_filtered, fin, fout>>

Next ==
    \/ pc[1] = "idle" /\ \E request \in Requests : Begin(1, request)
    \/ TotalRecords(1)
    \/ FilteredQuery(1)
    \/ FilteredRecords(1)
    \/ OrderAndPaginate(1)
    \/ ExecuteQuery(1)

Spec == Init /\ [][Next]_vars

(***************************************************************************)
(* Concurrent calls of process on one instance.  Every await of process    *)
(* is a point where another call may run, and a finished call leaves its   *)
(* frame so that the instance serves the next request.                     *)
(* The database explored here links every root row to at least one row.    *)
(***************************************************************************)
InitConc ==
    /\ InitInstance
    /\ \A i \in PostIds : author[i] # {}
    /\ fin = NoInput
    /\ fout = NoOutput

Return(c) ==
    /\ pc[c] \in {"done", "raised"}
    /\ pc' = [pc EXCEPT ![c] = "idle"]
    /\ req' = [req EXCEPT ![c] = NoRequest]
    /\ stmt' = [stmt EXCEPT ![c] = NoStatement]
    /\ records_total' = [records_total EXCEPT ![c] = 0]
    /\ records_filtered' = [records_filtered EXCEPT ![c] = 0]
    /\ response' = [response EXCEPT ![c] = NoResponse]
    /\ UNCHANGED <<instance, fin, fout>>

NextConc ==
    \E c \in Calls :
        \/ pc[c] = "idle" /\ \E request \in ConcRequests : Begin(c, request)
        \/ TotalRecords(c)
        \/ FilteredQuery(c)
        \/ FilteredRecords(c)
        \/ OrderAndPaginate(c)
        \/ ExecuteQuery(c)
        \/ Return(c)

SpecConc == InitConc /\ [][NextConc]_vars


(***************************************************************************)
(* The helper pipeline of utils.py: global_filter, column_filter and       *)
(* order_column over DataTablesColumn objects (name, searchable,           *)
(* orderable, search.value, search.matchMode).                             *)
(***************************************************************************)
RECURSIVE GlobalLoop(_, _, _, _, _, _, _)
GlobalLoop(m, columns, k, search_value, joins, conds, used) ==
    IF k > Len(columns) THEN [raised |-> FALSE, joins |-> joins, conds |-> conds]
    ELSE IF ~columns[k].searchable
         THEN GlobalLoop(m, columns, k + 1, search_value, joins, conds, used)
         ELSE LET r == resolve_column(m, columns[k].name, joins, used)
                  condition == build_condition(r.attr, "contains", search_value)
              IN  IF r.raised THEN [raised |-> TRUE, joins |-> joins, conds |-> conds]
                  ELSE GlobalLoop(m, columns, k + 1, search_value, r.joins,
                                  IF condition # NoCondition
                                  THEN Append(conds, condition) ELSE conds,
                                  used)

global_filter(search_value, st, columns, m) ==
    LET r == GlobalLoop(m, columns, 1, search_value, <<>>, <<>>, Len(st.joins))
        joined == apply_joins(st, r.joins)
    IN  IF search_value = <<>> THEN Returned(st)
        ELSE IF r.raised THEN Raised("InvalidColumnError", st)
        ELSE IF r.conds # <<>> THEN Returned(Where(joined, "or", r.conds))
        ELSE Returned(joined)

\* col.search.value.strip() if col.search.value else ""
FilterValue(col) == Strip(col.search.value)

RECURSIVE ColumnLoop(_, _, _, _, _, _)
ColumnLoop(m, columns, k, joins, conds, used) ==
    IF k > Len(columns) THEN [raised |-> FALSE, joins |-> joins, conds |-> conds]
    ELSE IF ~columns[k].searchable \/ FilterValue(columns[k]) = <<>>
         THEN ColumnLoop(m, columns, k + 1, joins, conds, used)
         ELSE LET r == resolve_column(m, columns[k].name, joins, used)
                  condition == build_condition(r.attr, "contains", FilterValue(columns[k]))
              IN  IF r.raised THEN [raised |-> TRUE, joins |-> joins, conds |-> conds]
                  ELSE ColumnLoop(m, columns, k + 1, r.joins,
                                  IF condition # NoCondition
                                  THEN Append(conds, condition) ELSE conds,
                                  used)

column_filter(st, columns, m) ==
    LET r == ColumnLoop(m, columns, 1, <<>>, <<>>, Len(st.joins))
        joined == apply_joins(st, r.joins)
    IN  IF r.raised THEN Raised("InvalidColumnError", st)
        ELSE IF r.conds # <<>> THEN Returned(Where(joined, "and", r.conds))
        ELSE Returned(joined)

\* a column name that is the empty string splits into one empty segment
EmptyName == <<"">>

RECURSIVE order_column_from(_, _, _, _)
order_column_from(m, st, request, k) ==
    IF k > Len(request.order) THEN Returned(st)
    ELSE LET col_index == request.order[k].column
             direction == request.order[k].dir
         IN  IF ~InList(col_index, Len(request.columns)) THEN Raised("IndexError", st)
             ELSE LET col == request.columns[ListIndex(col_index, Len(request.columns))]
                      r == resolve_column(m, col.name, <<>>, Len(st.joins))
                      got == ClassAttr(r.attr.entity, r.attr.name)
                      joined == apply_joins(st, r.joins)
                  IN  IF ~col.orderable \/ col.name = EmptyName
                      THEN order_column_from(m, st, request, k + 1)
                      ELSE IF r.raised THEN Raised("InvalidColumnError", st)
                      ELSE IF direction \notin {"asc", "desc"}
                           THEN Raised("ConfigurationError", st)
                      ELSE IF got.cls = "relation"
                           THEN Raised("NotImplementedError", st)
                      ELSE order_column_from(m, OrderBy(joined, r.attr, direction),
                                             request, k + 1)

order_column(m, st, request) == order_column_from(m, st, request, 1)


(***************************************************************************)
(* The helpers of utils.py evaluated on bounded inputs: the initial state  *)
(* draws a call (function and arguments), the action runs it.              *)
(***************************************************************************)
CondAttrs ==
    {AttrOf(RootOf("Post"), "title"), AttrOf(RootOf("Post"), "id"),
     AttrOf(RootOf("Post"), "author"), AttrOf(RootOf("User"), "joined"),
     AttrOf(RootOf("User"), "active"), AttrOf(RootOf("User"), "initials")}

UtilPaths == {<<"title">>, <<"author", "name">>, <<"author", "age">>, <<"missing", "field">>}

FilterValues == {<<>>, <<" ">>, <<"a">>, <<"1", "1">>}

UtilColumns(names, searchables, orderables, values, modes) ==
    [name : names, searchable : searchables, orderable : orderables,
     search : [value : values, matchMode : modes]]

CondInputs ==
    [fn : {"build_condition"}, attr : CondAttrs, match_mode : MatchModes \cup {"regex"},
     value : SeqsUpTo(Chars, MaxValLen), columns : {<<>>}, order : {<<>>}]

GlobalInputs ==
    [fn : {"global_filter"}, attr : {NoAttr}, match_mode : {None}, value : FilterValues,
     columns : SeqsUpTo(UtilColumns(UtilPaths, BOOLEAN, {TRUE}, {<<>>}, {None}), MaxCols),
     order : {<<>>}]

ColumnInputs ==
    [fn : {"column_filter"}, attr : {NoAttr}, match_mode : {None}, value : {<<>>},
     columns : SeqsUpTo(UtilColumns(UtilPaths, BOOLEAN, {TRUE}, FilterValues \ {<<" ">>},
                                    {None, "contains", "equals"}), MaxCols),
     order : {<<>>}]

OrderInputs ==
    {i \in [fn : {"order_column"}, attr : {NoAttr}, match_mode : {None}, value : {<<>>},
            columns : SeqsUpTo(UtilColumns((UtilPaths \ {<<"author", "age">>}) \cup {EmptyName},
                                           {TRUE}, BOOLEAN, {<<>>}, {None}), MaxCols),
            order : SeqsUpTo(OrderKeys, MaxOrder)] :
        Len(i.order) + Len(i.columns) <= MaxSize}

InitUtils ==
    /\ InitInstance
    /\ base_statment = NoStatement
    /\ author = [i \in PostIds |-> {1}]
    /\ fin \in CondInputs \cup GlobalInputs \cup ColumnInputs \cup OrderInputs
    /\ fout = NoOutput

Finish(r) ==
    fout' = [NoOutput EXCEPT !.done = TRUE, !.raised = r.raised, !.error = r.error,
                             !.stmt = r.stmt]

BuildCondition ==
    /\ fin.fn = "build_condition" /\ ~fout.done
    /\ fout' = [NoOutput EXCEPT !.done = TRUE,
                  !.condition = build_condition(fin.attr, fin.match_mode, fin.value)]
    /\ UNCHANGED <<instance, pc, req, stmt, records_total, records_filtered, response, fin>>

GlobalFilter ==
    /\ fin.fn = "global_filter" /\ ~fout.done
    /\ Finish(global_filter(fin.value, Select(model), fin.columns, model))
    /\ UNCHANGED <<instance, pc, req, stmt, records_total, records_filtered, response, fin>>

ColumnFilter ==
    /\ fin.fn = "column_filter" /\ ~fout.done
    /\ Finish(column_filter(Select(model), fin.columns, model))
    /\ UNCHANGED <<instance, pc, req, stmt, records_total, records_filtered, response, fin>>

OrderColumn ==
    /\ fin.fn = "order_column" /\ ~fout.done
    /\ Finish(order_column(model, Select(model), fin))
    /\ UNCHANGED <<instance, pc, req, stmt, records_total, records_filtered, response, fin>>

NextUtils == BuildCondition \/ GlobalFilter \/ ColumnFilter \/ OrderColumn

SpecUtils == InitUtils /\ [][NextUtils]_vars


(***************************************************************************)
(* Vocabulary of the properties.                                           *)
(***************************************************************************)
\* the call has a statement that went through get_filtered_query
AfterFilter == {"count", "order", "execute", "done"}
\* the call has a statement that went through apply_ordering and pagination
AfterOrdering == {"execute", "done"}

\* the global search value is absent, "" or blank
EmptySearch(request) ==
    ~request.search.has
    \/ \A i \in 1..Len(request.search.value) : request.search.value[i] = " "

\* every attribute a statement refers to, in its predicates and ORDER BY
StmtAttrs(st) ==
    UNION {{st.where[i].conds[k].attr : k \in 1..Len(st.where[i].conds)} :
               i \in 1..Len(st.where)}
    \cup {st.order[i].attr : i \in 1..Len(st.order)}

PathOf(attr) == Append(attr.prefix, attr.name)

\* the column an order key refers to when its index is within 0 .. len-1
InRange(key, request) == 0 <= key.column /\ key.column < Len(request.columns)

\* C1: within one pass over a request every relation path-prefix has one
\* alias and is joined once: no two joins of the statement are for the same
\* prefix, and two references through the same prefix read the same alias.
C1_OneAliasPerPrefix ==
    \A c \in Calls :
        pc[c] \in AfterFilter =>
            /\ \A i, k \in 1..Len(stmt[c].joins) :
                   stmt[c].joins[i].alias.prefix = stmt[c].joins[k].alias.prefix => i = k
            /\ \A a, b \in StmtAttrs(stmt[c]) : a.prefix = b.prefix => a.owner = b.owner

\* C2: with an empty global search value get_filtered_query returns the
\* statement it was given (no join, no predicate added) and the filtered
\* count equals the total count.
C2_EmptySearchIsIdentity ==
    \A c \in Calls :
        (pc[c] # "idle" /\ EmptySearch(req[c])) =>
            /\ pc[c] \in {"count", "order"} =>
                   /\ stmt[c] = get_query(model, base_statment)
                   /\ stmt[c].where = <<>> /\ stmt[c].joins = <<>>
            /\ pc[c] \in {"order", "execute"} => records_filtered[c] = records_total[c]
            /\ pc[c] = "done" => response[c].recordsFiltered = response[c].recordsTotal

C2_Witness ==
    /\ pc[1] = "done" /\ response[1].kind = "envelope"
    /\ req[1].search = [has |-> TRUE, value |-> <<" ">>]
    /\ Len(req[1].columns) = 2 /\ req[1].columns[1].searchable
    /\ req[1].order # <<>> /\ req[1].start = 1
    /\ response[1].recordsTotal = NPosts

\* C3: recordsFiltered is the number of rows of the query that offset and
\* limit are applied to, and data is the window [start, start+length) of
\* those rows.
Unpaged(st) == [st EXCEPT !.paged = FALSE, !.offset = 0, !.limit = 0]

C3_FilteredCountMatchesPage ==
    \A c \in Calls :
        pc[c] = "done" =>
            LET rows == execute_query(author, Unpaged(stmt[c]))
            IN  /\ response[c].recordsFiltered = Len(rows)
                /\ response[c].data = Window(rows, req[c].start, req[c].length)

\* C4: a resolved path with a non-final segment that is no relation, or a
\* final segment that is no scalar attribute, aborts the call with
\* InvalidColumnError before execute_query.
RECURSIVE ValidPath(_, _)
ValidPath(entity, parts) ==
    LET got == ClassAttr(entity, Head(parts))
    IN  IF Len(parts) = 1 THEN got.cls \in {"column", "hybrid"}
        ELSE got.cls = "relation" /\ ValidPath(got.target, Tail(parts))

BadSearchPath(request) ==
    /\ ~EmptySearch(request)
    /\ \E k \in 1..Len(request.columns) :
           request.columns[k].searchable /\ ~ValidPath(model, request.columns[k].name)

BadOrderPath(request) ==
    \E k \in 1..Len(request.order) :
        /\ InRange(request.order[k], request)
        /\ ~ValidPath(model, request.columns[request.order[k].column + 1].name)

C4_InvalidPathAborts ==
    \A c \in Calls :
        /\ (BadSearchPath(req[c]) /\ pc[c] \notin {"idle", "total", "filter"}) =>
               (pc[c] = "raised" /\ response[c].error = "InvalidColumnError")
        /\ BadOrderPath(req[c]) => pc[c] \notin AfterOrdering

\* C5: the ORDER BY terms of the final statement are exactly the order keys
\* whose column is orderable, in their order and with their direction.
RECURSIVE KeysToTerms(_, _, _)
KeysToTerms(request, k, keep) ==
    IF k > Len(request.order) THEN <<>>
    ELSE LET key == request.order[k]
             n == Len(request.columns)
         IN  (IF InList(key.column, n) /\ keep[k]
              THEN <<[path |-> request.columns[ListIndex(key.column, n)].name,
                      dir |-> key.dir]>>
              ELSE <<>>) \o KeysToTerms(request, k + 1, keep)

StmtTerms(st) == [i \in 1..Len(st.order) |-> [path |-> PathOf(st.order[i].attr),
                                                dir |-> st.order[i].dir]]

OrderableKeys(request) ==
    [k \in 1..Len(request.order) |->
        LET n == Len(request.columns)
        IN  InList(request.order[k].column, n)
            /\ request.columns[ListIndex(request.order[k].column, n)].orderable]

C5_OnlyOrderableKeysOrder ==
    \A c \in Calls :
        pc[c] \in AfterOrdering =>
            StmtTerms(stmt[c]) = KeysToTerms(req[c], 1, OrderableKeys(req[c]))

\* C10: an order key whose index is outside 0 .. len(columns)-1 is never
\* resolved and contributes no ORDER BY term: the terms of the statement
\* come, in order, from keys whose index is in range.
RECURSIVE IsSubSeq(_, _)
IsSubSeq(s, t) ==
    IF s = <<>> THEN TRUE
    ELSE IF t = <<>> THEN FALSE
    ELSE IF Head(s) = Head(t) THEN IsSubSeq(Tail(s), Tail(t))
    ELSE IsSubSeq(s, Tail(t))

InRangeKeys(request) ==
    [k \in 1..Len(request.order) |-> InRange(request.order[k], request)]

C10_OutOfRangeKeyIgnored ==
    \A c \in Calls :
        pc[c] \in AfterOrdering =>
            IsSubSeq(StmtTerms(stmt[c]), KeysToTerms(req[c], 1, InRangeKeys(req[c])))

\* C8: offset = start and limit = length are put on the statement after all
\* filtering and ordering and before execute_query, so two calls with the
\* same filter and order keys return windows of one ordered row sequence.
SameQuery(r1, r2) ==
    r1.search = r2.search /\ r1.columns = r2.columns /\ r1.order = r2.order

C8_PagesAreWindowsOfOneSequence ==
    /\ \A c \in Calls :
           /\ pc[c] \in {"total", "filter", "count", "order"} => ~stmt[c].paged
           /\ pc[c] \in AfterOrdering =>
                  /\ stmt[c].paged
                  /\ stmt[c].offset = req[c].start /\ stmt[c].limit = req[c].length
    /\ \A c, d \in Calls :
           (pc[c] = "done" /\ pc[d] = "done" /\ SameQuery(req[c], req[d])) =>
               LET rows == execute_query(author, Unpaged(stmt[c]))
               IN  /\ Unpaged(stmt[c]) = Unpaged(stmt[d])
                   /\ response[c].data = Window(rows, req[c].start, req[c].length)
                   /\ response[d].data = Window(rows, req[d].start, req[d].length)

C8_Witness ==
    /\ pc[1] = "done" /\ pc[2] = "done"
    /\ SameQuery(req[1], req[2])
    /\ req[1].order # <<>> /\ ~EmptySearch(req[1])
    /\ req[1].start = 0 /\ req[2].start = 1
    /\ req[1].length = 2 /\ req[2].length = 1
    /\ Len(response[1].data) = 2
    /\ response[2].data = <<response[1].data[2]>>
    /\ response[1].data[1] # response[1].data[2]

\* C9: concurrent calls do not interfere: at every step a call holds what
\* it would hold had it run alone on the instance (its statement, with the
\* aliases and joins of its own request only, its counts and its envelope
\* or exception), and no step changes model, base_statment or db_backend.
AloneQuery == get_query(model, base_statment)
AloneFiltered(request) == get_filtered_query(model, AloneQuery, request)
AloneOrdered(request) == apply_ordering(model, AloneFiltered(request).stmt, request)
AloneFinal(request) == Paginate(AloneOrdered(request).stmt, request)

AsIfAlone(c) ==
    LET r == req[c]
        total == get_total_records(author, AloneQuery)
        filtered == get_filtered_records(author, AloneFiltered(r).stmt)
    IN  /\ pc[c] \in {"total", "filter"} => stmt[c] = AloneQuery
        /\ pc[c] \in {"filter", "count", "order", "execute"} => records_total[c] = total
        /\ pc[c] \in {"count", "order"} =>
               ~AloneFiltered(r).raised /\ stmt[c] = AloneFiltered(r).stmt
        /\ pc[c] \in {"order", "execute"} => records_filtered[c] = filtered
        /\ pc[c] \in AfterOrdering =>
               ~AloneOrdered(r).raised /\ stmt[c] = AloneFinal(r)
        /\ pc[c] = "done" =>
               response[c] = Envelope(r, total, filtered,
                                      execute_query(author, AloneFinal(r)))
        /\ pc[c] = "raised" =>
               /\ response[c].kind = "raised"
               /\ response[c].error = IF AloneFiltered(r).raised
                                      THEN AloneFiltered(r).error
                                      ELSE AloneOrdered(r).error
               /\ AloneFiltered(r).raised \/ AloneOrdered(r).raised

C9_CallsDoNotInterfere ==
    /\ [](\A c \in Calls : AsIfAlone(c))
    /\ [][model' = model /\ base_statment' = base_statment /\ db_backend' = db_backend]_vars

\* C6: column_filter builds each predicate with the column's own match
\* mode (contains when none is given) and combines the predicates with AND.
OwnMode(col) == IF col.search.matchMode = None THEN "contains" ELSE col.search.matchMode

RECURSIVE OwnModeConds(_, _, _, _, _)
OwnModeConds(m, columns, k, joins, conds) ==
    IF k > Len(columns) THEN [joins |-> joins, conds |-> conds]
    ELSE IF ~columns[k].searchable \/ FilterValue(columns[k]) = <<>>
         THEN OwnModeConds(m, columns, k + 1, joins, conds)
         ELSE LET r == resolve_column(m, columns[k].name, joins, 0)
                  condition == build_condition(r.attr, OwnMode(columns[k]),
                                               FilterValue(columns[k]))
              IN  OwnModeConds(m, columns, k + 1, r.joins,
                               IF condition # NoCondition
                               THEN Append(conds, condition) ELSE conds)

C6_ColumnFilterUsesOwnMode ==
    (fin.fn = "column_filter" /\ fout.done /\ ~fout.raised) =>
        LET want == OwnModeConds(model, fin.columns, 1, <<>>, <<>>)
        IN  fout.stmt.where = IF want.conds = <<>> THEN <<>>
                              ELSE <<[conn |-> "and", conds |-> want.conds]>>

\* C7: build_condition yields a predicate exactly when the attribute kind
\* supports the request: text and temporal attributes for each of the six
\* match modes, integer attributes for equals and notEquals of a value
\* that is a whole number, attributes without a declared type never.
KindOf(attr) ==
    LET got == ClassAttr(attr.entity, attr.name)
    IN  CASE got.cls = "column" /\ got.type \in {"String", "Text"} -> "text"
          [] got.cls = "column" /\ got.type = "Integer" -> "integer"
          [] got.cls = "column" /\ got.type \in {"DateTime", "Date", "TIMESTAMP"} -> "temporal"
          [] OTHER -> "unsupported"

\* blanks, an optional minus sign, one or more digits, blanks
IsWholeNumber(v) ==
    \E a, b \in 0..Len(v) :
        /\ a < b
        /\ \A i \in 1..Len(v) : (i <= a \/ i > b) => v[i] = " "
        /\ \/ \A i \in (a + 1)..b : v[i] \in Digits
           \/ /\ v[a + 1] = "-" /\ a + 1 < b
              /\ \A i \in (a + 2)..b : v[i] \in Digits

Supports(kind, match_mode, value) ==
    \/ kind \in {"text", "temporal"} /\ match_mode \in MatchModes
    \/ kind = "integer" /\ match_mode \in {"equals", "notEquals"} /\ IsWholeNumber(value)

C7_BuildConditionTotal ==
    (fin.fn = "build_condition" /\ fout.done) =>
        /\ (fout.condition # NoCondition)
               <=> Supports(KindOf(fin.attr), fin.match_mode, fin.value)
        /\ fout.condition # NoCondition => fout.condition.attr = fin.attr

C7_Witness ==
    /\ fin.fn = "build_condition" /\ fout.done
    /\ KindOf(fin.attr) = "integer" /\ fin.match_mode = "notEquals"
    /\ fin.value = <<"-", "1">>
    /\ fout.condition.op = "ne" /\ fout.condition.num = 0 - 1

C9_Witness ==
    /\ pc[1] = "execute" /\ pc[2] = "order"
    /\ ~EmptySearch(req[1]) /\ EmptySearch(req[2])
    /\ Len(stmt[1].joins) = 2 /\ stmt[2].joins = <<>>
    /\ req[2].order # <<>>

\* C11: every call that process completes against the unchanging database
\* reports recordsFiltered <= recordsTotal, also when a non-empty global
\* search reaches searchable columns through relation paths, so that
\* get_filtered_query joins the related entities before the filtered count.
C11_FilteredAtMostTotal ==
    pc[1] = "done" =>
        /\ response[1].kind = "envelope"
        /\ response[1].recordsFiltered <= response[1].recordsTotal


====
